---- MODULE Spec2Model ----
(***************************************************************************)
(* A model of the Watchable<T> class of src/src/watchable.ts: the observed *)
(* value graph (raw objects and the Proxy layers put around them), the     *)
(* listener registry, the dispatch loop and the when() facade.             *)
(*                                                                         *)
(* JavaScript values are integers: Undefined is `undefined`, 0..MaxNum are *)
(* numbers (0 is falsy), and every integer above Base is a reference to    *)
(* the heap cell heap[v - Base]. A cell is either a raw object (its own    *)
(* enumerable fields, in insertion order) or a Proxy around a target.      *)
(* Every public operation is one action: the whole synchronous call,       *)
(* nested dispatches and the callbacks' own calls included. The call runs  *)
(* on a machine record m that holds the instance's fields, the JavaScript  *)
(* call stack (one frame per pending function or loop) and the trace of    *)
(* the call; Run steps the machine until the stack is empty.               *)
(***************************************************************************)
EXTENDS Integers, Sequences, FiniteSets, TLC

VARIABLES heap, callbacks, toRemove, predicates, oldValue, log, reg, last, nops,
          script, order, promise

vars == <<heap, callbacks, toRemove, predicates, oldValue, log, reg, last, nops,
          script, order, promise>>

(* ------------------------------ bounds -------------------------------- *)
\* top-level operations in one run
MaxOps == 3
\* machine steps one call may take before it is cut off
MaxSteps == 600
\* the elements an array may come to hold
MaxLen == 4

(* ------------------------------ values -------------------------------- *)
Undefined == -1
Base == 100
MaxNum == 2
Nums == 0..MaxNum
IsObject(v) == v > Base
\* The strings among the values: the property paths a client passes to when,
\* as strings; Strings + i is the string of PathStrings[i]
Strings == 50
PathStrings == << <<"a">>, <<"a", "b">>, <<"x", "b">> >>
StringOf(ks) == Strings + (CHOOSE i \in 1..Len(PathStrings) : PathStrings[i] = ks)
\* JavaScript truthiness of the values of the model
Truthy(v) == v >= 1
Keys == {"value", "a", "b"}
NoProperty == "<unset>"

\* the callbacks a client registers
CB == {1, 2}
Tomb == 0
\* What else ends up in _callbacks: when(path, x, cb) that falls through to the
\* two-argument branch (lines 262-279) registers its second argument x as the
\* callback, x a plain value or a predicate function
ValueAsCallback == 3
PredicateAsCallback == 4
\* () => { res(); }, the callback promiseWhen passes to when (lines 151, 157)
Resolver == 5
Registrable == CB \cup {ValueAsCallback, PredicateAsCallback, Resolver}

(* ------------------------------- heap --------------------------------- *)
RawCell(fs) == [proxy |-> FALSE, target |-> 0, fields |-> fs]
ProxyCell(t) == [proxy |-> TRUE, target |-> t, fields |-> <<>>]
Cell(h, r) == h[r - Base]
Alloc(h, c) == [h |-> Append(h, c), ret |-> Base + Len(h) + 1]

\* the raw object behind a reference: a Proxy without a get trap forwards
RECURSIVE RawOf(_, _)
RawOf(h, r) == IF Cell(h, r).proxy THEN RawOf(h, Cell(h, r).target) ELSE r

\* The own properties of the raw object behind r, in insertion order. An array
\* is a raw object with a property "length" (not enumerable) and the index
\* properties "0", "1", ...
Fields(h, r) == Cell(h, RawOf(h, r)).fields
IndexKeys == {ToString(i) : i \in 0..MaxLen}
IndexOf(k) == CHOOSE i \in 0..MaxLen : ToString(i) = k
HasLength(fs) == \E i \in 1..Len(fs) : fs[i][1] = "length"
LengthOf(fs) == fs[CHOOSE i \in 1..Len(fs) : fs[i][1] = "length"][2]

\* Object.entries(obj): the own enumerable fields, in insertion order
Entries(h, r) == SelectSeq(Fields(h, r), LAMBDA kv : kv[1] # "length")

HasKey(h, r, k) == \E i \in 1..Len(Fields(h, r)) : Fields(h, r)[i][1] = k

\* obj[k] read: no get trap, so a read goes straight to the raw object
GetField(h, r, k) ==
    LET fs == Fields(h, r)
    IN  IF \E i \in 1..Len(fs) : fs[i][1] = k
        THEN fs[CHOOSE i \in 1..Len(fs) : fs[i][1] = k][2]
        ELSE Undefined

\* the fields fs with k set to v
Store(fs, k, v) ==
    IF \E i \in 1..Len(fs) : fs[i][1] = k
    THEN [i \in 1..Len(fs) |-> IF fs[i][1] = k THEN <<k, v>> ELSE fs[i]]
    ELSE Append(fs, <<k, v>>)

\* a store that leaves an array's length alone
PutFieldPlain(h, r, k, v) == [h EXCEPT ![r - Base].fields = Store(@, k, v)]

\* t[k] = v on a raw object. On an array, a store at an index at or beyond
\* length also sets length to index + 1, and a store to length drops the
\* elements at or beyond the new length
PutField(h, r, k, v) ==
    LET fs == h[r - Base].fields
        nf == IF HasLength(fs) /\ k \in IndexKeys /\ IndexOf(k) >= LengthOf(fs)
              THEN Store(Store(fs, k, v), "length", IndexOf(k) + 1)
              ELSE IF HasLength(fs) /\ k = "length"
              THEN Store(SelectSeq(fs, LAMBDA kv : ~(kv[1] \in IndexKeys
                                                      /\ IndexOf(kv[1]) >= v)),
                         "length", v)
              ELSE Store(fs, k, v)
    IN  [h EXCEPT ![r - Base].fields = nf]

\* this._proxy: the Proxy around the container { value: initialValue }
Container == Base + 1
RootProxy == Base + 2
\* get value()
Value(h) == GetField(h, RootProxy, "value")

(* --------------------------- change events ---------------------------- *)
\* interface ChangeEvent: target, property and res are optional
ChangeEvent(nv, ov, prop, tgt, root) ==
    [oldValue |-> ov, target |-> tgt, root |-> root, newValue |-> nv, property |-> prop,
     res |-> Undefined]

(* ----------------------------- predicates ----------------------------- *)
\* The predicate functions a client (or when) supplies, by what they compute:
\*   never   () => false                always  () => true
\*   nvGe k  e => e.newValue >= k       nvEq k  x => x?.newValue === k
\*   resGe k e => e.res >= k            resEq k e => e?.res === k
\*   resUndefined e => e.res === undefined
Pred(kind, k) == [k |-> k, kind |-> kind]
PredEval(p, e) ==
    CASE p.kind = "never" -> FALSE
      [] p.kind = "always" -> TRUE
      [] p.kind = "nvGe"  -> e.newValue \in Nums /\ e.newValue >= p.k
      [] p.kind = "nvEq"  -> e.newValue = p.k
      [] p.kind = "resGe" -> e.res \in Nums /\ e.res >= p.k
      [] p.kind = "resEq" -> e.res = p.k
      [] p.kind = "resUndefined" -> e.res = Undefined
      \* x => x?.newValue === "<the path string>", k the string
      [] p.kind = "nvEqString" -> e.newValue = p.k
      [] OTHER -> FALSE

\* interface PredicateData; has = FALSE stands for no entry in _predicates,
\* path = <<>> for an absent propertyPath
NoCondition == [has |-> FALSE, path |-> <<>>, pred |-> Pred("none", 0)]
Condition(path, p) == [has |-> TRUE, path |-> path, pred |-> p]

(* ------------------------------ machine ------------------------------- *)
\* The instance's fields during one call, with its call stack (the top frame is
\* the last one) and the trace of the call: log (predicate evaluations and
\* callback invocations, in order), nev (the ChangeEvents constructed), nwr (the
\* writes client code made that change their slot), ret (the value the function
\* that just returned gave back), order (the registered callbacks by their most
\* recent registration), settled (the calls of a promise's resolve function)
MachineOf(h, cbs, tr, ps, ov) ==
    [predicates |-> ps, heap |-> h, callbacks |-> cbs, toRemove |-> tr, oldValue |-> ov,
     log |-> <<>>, order |-> <<>>, ret |-> Undefined, stack |-> <<>>, nev |-> 0,
     nwr |-> 0, fuel |-> MaxSteps, cut |-> FALSE, thrown |-> "none", deferred |-> FALSE,
     settled |-> 0]
Machine == [MachineOf(heap, callbacks, toRemove, predicates, oldValue)
              EXCEPT !.order = order]

Push(m, frames) == [m EXCEPT !.stack = @ \o frames]

LogEntry(kind, c, id, e, m, ok) ==
    [kind |-> kind, e |-> e, ok |-> ok, cb |-> c, eid |-> id, value |-> Value(m.heap)]

\* _getNestedValue, on a path already split into its keys. Walk is the loop of
\* lines 101-104: value[key] of undefined throws, of a number or a string gives
\* undefined. Thrown stands for the value of the loop when it threw.
Thrown == -2
RECURSIVE Walk(_, _, _, _)
Walk(h, keys, value, obj) ==
    IF keys = <<>> THEN [value |-> value, obj |-> obj]
    ELSE IF value = Undefined THEN [value |-> Thrown, obj |-> obj]
    ELSE LET o == IF IsObject(value) THEN value ELSE obj
             v == IF IsObject(value) THEN GetField(h, value, Head(keys)) ELSE Undefined
         IN  Walk(h, Tail(keys), v, o)
\* without the catch of lines 105-108
GetNestedValueUncaught(h, keys) == Walk(h, keys, Value(h), RootProxy)
\* a resolver whose parent pointer stays on the container of the root
GetNestedValueParentFixed(h, keys) ==
    LET r == Walk(h, keys, Value(h), RootProxy)
    IN  [value |-> IF r.value = Thrown THEN Undefined ELSE r.value, obj |-> RootProxy]
\* lines 91-110: the catch turns a throw into undefined
GetNestedValue(h, keys) ==
    LET r == Walk(h, keys, Value(h), RootProxy)
    IN  IF r.value = Thrown THEN [value |-> Undefined, obj |-> r.obj] ELSE r

(* ---------------------- registry (lines 288-316) ---------------------- *)
IsRegistered(cbs, c) == \E i \in 1..Len(cbs) : cbs[i] = c

\* Set.prototype.add: a new element goes last, a present one keeps its place
SetAdd(cbs, c) == IF IsRegistered(cbs, c) THEN cbs ELSE Append(cbs, c)
\* Set.prototype.delete while iterators may be live: the entry is emptied
SetDelete(cbs, c) == [i \in 1..Len(cbs) |-> IF cbs[i] = c THEN Tomb ELSE cbs[i]]

Without(cs, c) == SelectSeq(cs, LAMBDA d : d # c)

\* a registration whose options replace those of an earlier one
AddChangeListenerReplacing(m, c, once, cond) ==
    [m EXCEPT !.callbacks = SetAdd(@, c),
              !.toRemove = IF once THEN @ \cup {c} ELSE @ \ {c},
              !.predicates = [@ EXCEPT ![c] = cond],
              !.order = Append(Without(@, c), c)]

AddChangeListener(m, c, once, cond) ==
    [m EXCEPT !.callbacks = SetAdd(@, c),
              !.toRemove = IF once THEN @ \cup {c} ELSE @,
              !.predicates = IF cond.has THEN [@ EXCEPT ![c] = cond] ELSE @,
              !.order = Append(Without(@, c), c)]

\* a removal that forgets the callback's entries in _toRemove and _predicates
RemoveFromCallbacksOnly(m, c) ==
    [m EXCEPT !.callbacks = SetDelete(@, c), !.order = Without(@, c)]

RemoveChangeListener(m, c) ==
    [m EXCEPT !.callbacks = SetDelete(@, c),
              !.toRemove = @ \ {c},
              !.predicates = [@ EXCEPT ![c] = NoCondition],
              !.order = Without(@, c)]

\* a clear that leaves the callbacks in _callbacks
ClearOptionsOnly(m) ==
    [m EXCEPT !.toRemove = {}, !.predicates = [c \in Registrable |-> NoCondition]]

ClearListeners(m) ==
    [m EXCEPT !.callbacks = [i \in 1..Len(@) |-> Tomb],
              !.toRemove = {},
              !.predicates = [c \in Registrable |-> NoCondition],
              !.order = <<>>]

(* ------------------- client callbacks (line 20) ----------------------- *)
\* What the registered callbacks do when invoked; script gives each callback
\* of a run its body:
\*   noop  e => {}
\*   bump  e => { if (typeof w.value === "number" && w.value < MaxNum) w.value++ }
\*   bumpA e => { if (typeof w.value.a === "number" && w.value.a < MaxNum) w.value.a++ }
\*         (w.value an object)
\*   adder e => w.addChangeListener(other), other the second callback of the run
\*   readd e => { w.removeChangeListener(self); w.addChangeListener(self) }
\*   resolve   () => res(), the callback promiseWhen passes to when (lines 151, 157)
\* and calling what is no function is a TypeError
Other(c) == 3 - c
DefaultScripts == [c \in CB |-> IF c = 2 THEN "bump" ELSE "noop"]
Script(c) ==
    CASE c \in CB -> script[c]
      [] c = PredicateAsCallback -> "noop"
      [] c = Resolver -> "resolve"
      [] OTHER -> "notAFunction"

(* ----------- observation engine and dispatch (lines 49-140) ----------- *)
\* The frames of the call stack, by the code that runs when one is on top:
AssignFrame(obj, p, v) == [v |-> v, k |-> "assign", p |-> p, obj |-> obj]
AssignRetFrame(obj, p) == [k |-> "assignRet", p |-> p, obj |-> obj]
TrapFrame(t, p, v) == [v |-> v, t |-> t, k |-> "trap", p |-> p]
DispatchFrame(t, p, v, old) == [v |-> v, t |-> t, k |-> "dispatch", p |-> p, old |-> old]
DeepProxyFrame(obj) == [k |-> "deepProxy", obj |-> obj]
DeepLoopFrame(obj, entries, i) == [k |-> "deepLoop", i |-> i, obj |-> obj,
                                   entries |-> entries]
CreateProxyFrame(obj) == [k |-> "createProxy", obj |-> obj]
RunFrame(e, id, i) == [k |-> "run", i |-> i, e |-> e, id |-> id]
InvokeFrame(c, id, e) == [c |-> c, k |-> "invoke", e |-> e, id |-> id]
AfterFrame(c) == [c |-> c, k |-> "after"]
SetValueFrame(x) == [k |-> "setValue", x |-> x]

AssignPlain(m, obj, p, v) == [m EXCEPT !.heap = PutField(@, obj, p, v)]

\* obj[p] = v: through the set trap if obj is a Proxy, else a plain store
Assign(m, obj, p, v) ==
    IF Cell(m.heap, obj).proxy
    THEN Push(m, <<TrapFrame(Cell(m.heap, obj).target, p, v)>>)
    ELSE [m EXCEPT !.heap = PutField(@, obj, p, v)]

\* set value(x), lines 49-57
SetValue(m, f) ==
    LET m1 == [m EXCEPT !.oldValue = Value(m.heap)]
    IN  IF IsObject(f.x)
        THEN Push(m1, <<AssignRetFrame(RootProxy, "value"), DeepProxyFrame(f.x)>>)
        ELSE Push(m1, <<AssignFrame(RootProxy, "value", f.x)>>)

\* _deepProxy, lines 59-67: the loop over Object.entries(obj), then _createProxy
DeepProxy(m, f) ==
    Push(m, <<CreateProxyFrame(f.obj), DeepLoopFrame(f.obj, Entries(m.heap, f.obj), 1)>>)

DeepLoop(m, f) ==
    IF f.i > Len(f.entries) THEN m
    ELSE IF IsObject(f.entries[f.i][2])
         THEN Push(m, <<DeepLoopFrame(f.obj, f.entries, f.i + 1),
                        AssignRetFrame(f.obj, f.entries[f.i][1]),
                        DeepProxyFrame(f.entries[f.i][2])>>)
         ELSE Push(m, <<DeepLoopFrame(f.obj, f.entries, f.i + 1)>>)

\* _createProxy, lines 69-86: a new Proxy whose target is obj
CreateProxy(m, f) ==
    LET a == Alloc(m.heap, ProxyCell(f.obj))
    IN  [m EXCEPT !.heap = a.h, !.ret = a.ret]

\* v === oldValue, line 73
SameValue(old, v) == old = v

\* a set trap that stores every new value as it is given
TrapStoringUnwrapped(m, f) ==
    LET old == GetField(m.heap, f.t, f.p)
        m1 == [m EXCEPT !.oldValue = old]
    IN  IF SameValue(old, f.v) THEN m1
        ELSE Push(m1, <<DispatchFrame(f.t, f.p, f.v, old), AssignFrame(f.t, f.p, f.v)>>)

\* the set trap, lines 72-75, t the Proxy's target
Trap(m, f) ==
    LET old == GetField(m.heap, f.t, f.p)
        m1 == [m EXCEPT !.oldValue = old]
    IN  IF SameValue(old, f.v) THEN m1
        ELSE IF IsObject(f.v)
             THEN Push(m1, <<DispatchFrame(f.t, f.p, f.v, old),
                             AssignRetFrame(f.t, f.p), DeepProxyFrame(f.v)>>)
             ELSE Push(m1, <<DispatchFrame(f.t, f.p, f.v, old),
                             AssignFrame(f.t, f.p, f.v)>>)

TrapEventSwapped(m, f) == ChangeEvent(f.old, f.v, f.p, f.t, Value(m.heap))

\* the event of the set trap, lines 76-82, built after the store
TrapEvent(m, f) == ChangeEvent(f.v, f.old, f.p, f.t, Value(m.heap))

\* a dispatch that is queued until the calls on the stack have returned
DispatchQueued(m, f) ==
    [m EXCEPT !.nev = @ + 1, !.stack = <<RunFrame(TrapEvent(m, f), m.nev + 1, 1)>> \o @]

\* a dispatch that abandons the callers waiting on the stack
DispatchAbandoning(m, f) ==
    [m EXCEPT !.nev = @ + 1, !.stack = <<RunFrame(TrapEvent(m, f), m.nev + 1, 1)>>]

\* this._runCallbacks({...}), lines 76-82: a plain call
Dispatch(m, f) ==
    Push([m EXCEPT !.nev = @ + 1], <<RunFrame(TrapEvent(m, f), m.nev + 1, 1)>>)

\* lines 114-130: the event as the predicate sees it, and whether to execute
WithRes(m, cond, e) ==
    IF cond.has /\ cond.path # <<>> /\ IsObject(Value(m.heap))
    THEN [e EXCEPT !.res = GetNestedValue(m.heap, cond.path).value]
    ELSE e
ExecuteAlways(cond, e) == TRUE
Execute(cond, e) == IF cond.has THEN PredEval(cond.pred, e) ELSE TRUE

\* _runCallbacks, lines 112-140: one turn of the for-of over the live Set
RunCallbacks(m, f) ==
    IF f.i > Len(m.callbacks) THEN m
    ELSE IF m.callbacks[f.i] = Tomb THEN Push(m, <<RunFrame(f.e, f.id, f.i + 1)>>)
    ELSE
      LET c == m.callbacks[f.i]
          cond == m.predicates[c]
          e1 == WithRes(m, cond, f.e)
          m1 == IF cond.has
                THEN [m EXCEPT !.log = Append(@, LogEntry("pred", c, f.id, e1, m,
                                                          PredEval(cond.pred, e1)))]
                ELSE m
      IN  IF Execute(cond, e1)
          THEN Push(m1, <<RunFrame(e1, f.id, f.i + 1), AfterFrame(c), InvokeFrame(c, f.id, e1)>>)
          ELSE Push(m1, <<RunFrame(e1, f.id, f.i + 1)>>)

\* a one-shot removal that leaves the callback's condition in _predicates
AfterCallbackKeepingCondition(m, f) ==
    IF f.c \in m.toRemove
    THEN [m EXCEPT !.toRemove = @ \ {f.c}, !.callbacks = SetDelete(@, f.c),
                   !.order = Without(@, f.c)]
    ELSE m

\* lines 135-137: a once listener is removed after its callback returns
AfterCallback(m, f) ==
    IF f.c \in m.toRemove
    THEN RemoveChangeListener([m EXCEPT !.toRemove = @ \ {f.c}], f.c)
    ELSE m

\* an exception nobody catches unwinds the whole call
Unwind(m, what) == [m EXCEPT !.thrown = what, !.stack = <<>>]

(* ------------------------- when (lines 194-280) ----------------------- *)
\* A property path as the client writes it is a sequence of characters. The
\* characters \w matches, among those of the paths of the runs:
WordChars == {"a", "b", "c", "x", "0", "1"}
\* the string of a sequence of characters
RECURSIVE Join(_)
Join(cs) == IF cs = <<>> THEN "" ELSE Head(cs) \o Join(Tail(cs))

\* path.matchAll(propRegEx), lines 88-98. At each position the alternatives are
\* tried in order: a word that ends the string, a word followed by . or [,
\* ["..."] and ['...']; a match gives a key and the scan goes on behind it, no
\* match moves the scan one character on. The key is the first capture group
\* that is truthy, so an empty [""] gives the key undefined.
ParsePath(s) ==
    LET n == Len(s)
        \* the end of the longest run of word characters from i
        WordEnd(i) == CHOOSE j \in i..n :
                          /\ \A k \in i..j : s[k] \in WordChars
                          /\ j = n \/ s[j + 1] \notin WordChars
        Word(i) == s[i] \in WordChars
                   /\ (WordEnd(i) = n \/ s[WordEnd(i) + 1] \in {".", "["})
        \* the closing quote of the bracket that opens at i with the quote q
        Closes(i, q) == {k \in i + 2..n - 1 : s[k] = q}
        Close(i, q) == CHOOSE k \in Closes(i, q) : \A l \in Closes(i, q) : k <= l
        Bracket(i, q) == /\ i + 3 <= n /\ s[i] = "[" /\ s[i + 1] = q
                         /\ Closes(i, q) # {}
                         /\ s[Close(i, q) + 1] = "]"
        Content(i, q) == IF Close(i, q) = i + 2 THEN "undefined"
                         ELSE Join(SubSeq(s, i + 2, Close(i, q) - 1))
        RECURSIVE Scan(_)
        Scan(i) ==
            IF i > n THEN <<>>
            ELSE IF Word(i) THEN <<Join(SubSeq(s, i, WordEnd(i)))>> \o Scan(WordEnd(i) + 1)
            ELSE IF Bracket(i, "\"")
                 THEN <<Content(i, "\"")>> \o Scan(Close(i, "\"") + 2)
            ELSE IF Bracket(i, "'")
                 THEN <<Content(i, "'")>> \o Scan(Close(i, "'") + 2)
            ELSE Scan(i + 1)
    IN  Scan(1)

\* path.split(".").at(-1), line 213: what follows the last dot
SplitLast(s) ==
    LET dots == {i \in 1..Len(s) : s[i] = "."}
        from == IF dots = {} THEN 1
                ELSE 1 + CHOOSE i \in dots : \A j \in dots : j <= i
    IN  Join(SubSeq(s, from, Len(s)))

\* the characters of the dotted path k1.k2...kn, its keys single characters
RECURSIVE Dotted(_)
Dotted(ks) ==
    IF ks = <<>> THEN <<>>
    ELSE IF Len(ks) = 1 THEN <<ks[1]>>
    ELSE <<ks[1], ".">> \o Dotted(Tail(ks))

\* An argument of when: a predicate function, one of the callbacks, a plain
\* value, a string (a property path) or nothing
FnArg(p) == [v |-> Undefined, t |-> "fn", path |-> <<>>, pred |-> p, cb |-> 0]
CbArg(c) == [v |-> Undefined, t |-> "cb", path |-> <<>>, pred |-> Pred("none", 0),
             cb |-> c]
ValArg(v) == [v |-> v, t |-> "val", path |-> <<>>, pred |-> Pred("none", 0), cb |-> 0]
\* a string argument, path its characters
TextArg(s) == [v |-> Undefined, t |-> "path", path |-> s, pred |-> Pred("none", 0),
               cb |-> 0]
\* the string as a value: that of StringOf for a dotted path of PathStrings,
\* and for every other string one value that no root ever holds
StringOfText(s) ==
    IF \E i \in 1..Len(PathStrings) : Dotted(PathStrings[i]) = s
    THEN Strings + (CHOOSE i \in 1..Len(PathStrings) : Dotted(PathStrings[i]) = s)
    ELSE Strings + Len(PathStrings) + 1
\* the dotted path of the keys ks
PathArg(ks) == TextArg(Dotted(ks))
NoArg == [v |-> Undefined, t |-> "none", path |-> <<>>, pred |-> Pred("none", 0),
          cb |-> 0]

ArgTruthy(a) ==
    CASE a.t \in {"fn", "cb"} -> TRUE
      [] a.t = "val" -> Truthy(a.v)
      [] a.t = "path" -> a.path # <<>>
      [] OTHER -> FALSE
IsFunction(a) == a.t \in {"fn", "cb"}

\* a throw that leaves a listener behind
ThrowRegistering(m, what) ==
    [AddChangeListener(m, 1, TRUE, NoCondition) EXCEPT !.thrown = what]
Throw(m, what) == [m EXCEPT !.thrown = what]

\* predicateFn(changeEvent), traced; the callbacks of the model return undefined
\* and are never passed as the predicate
CallPredicate(m, a, e) ==
    [m EXCEPT !.log = Append(@, LogEntry("when", 0, 0, e, m,
                                         a.t = "fn" /\ PredEval(a.pred, e)))]

\* callback(changeEvent): calling what is no function is a TypeError
CallCallback(m, a, e) ==
    IF a.t = "cb" THEN Push(m, <<InvokeFrame(a.cb, 0, e)>>)
    ELSE IF a.t = "fn" THEN m
    ELSE Throw(m, "TypeError")

\* a deferral that also invokes the callback
DeferInvoking(m, a, cond) ==
    IF a.t = "cb"
    THEN Push(AddChangeListener([m EXCEPT !.deferred = TRUE], a.cb, TRUE, cond),
              <<InvokeFrame(a.cb, 0, ChangeEvent(Value(m.heap), m.oldValue, NoProperty,
                                                 Undefined, Value(m.heap)))>>)
    ELSE AddChangeListener(m, ValueAsCallback, TRUE, cond)

\* addChangeListener(callback, { once: true, condition }) as when calls it:
\* whatever stands in callback's place is registered
Defer(m, a, cond) ==
    CASE a.t = "cb" -> AddChangeListener([m EXCEPT !.deferred = TRUE], a.cb, TRUE, cond)
      [] a.t = "fn" -> AddChangeListener(m, PredicateAsCallback, TRUE, cond)
      [] OTHER -> AddChangeListener(m, ValueAsCallback, TRUE, cond)


\* the event of the overloads without a path, lines 246-250 and 263-267
RootEvent(m) ==
    ChangeEvent(Value(m.heap), m.oldValue, NoProperty, Undefined, Value(m.heap))

\* lines 199-244: the overloads with a property path
WhenPath(m, a1, a2, a3) ==
    IF ~IsObject(Value(m.heap)) THEN Throw(m, "usage")
    ELSE IF a1.t # "path" THEN Throw(m, "TypeError")
    ELSE
      LET keys == ParsePath(a1.path)
          r == GetNestedValue(m.heap, keys)
          e == [ChangeEvent(r.value, m.oldValue, SplitLast(a1.path), r.obj,
                            Value(m.heap)) EXCEPT !.res = r.value]
      IN  IF IsFunction(a2)
          THEN IF a2.t = "fn" /\ PredEval(a2.pred, e)
               THEN CallCallback(CallPredicate(m, a2, e), a3, e)
               ELSE Defer(CallPredicate(m, a2, e), a3, Condition(keys, a2.pred))
          ELSE IF a2.v = r.value THEN CallCallback(m, a3, e)
          ELSE Defer(m, a3, Condition(keys, Pred("resEq", a2.v)))

WhenPredicateRegistering(m, a1, a2) ==
    IF a1.t = "fn" /\ PredEval(a1.pred, RootEvent(m))
    THEN Defer(CallCallback(CallPredicate(m, a1, RootEvent(m)), a2, RootEvent(m)), a2,
               Condition(<<>>, a1.pred))
    ELSE Defer(CallPredicate(m, a1, RootEvent(m)), a2, Condition(<<>>, a1.pred))

\* lines 245-261: when(predicateFn, callback)
WhenPredicate(m, a1, a2) ==
    IF a1.t = "fn" /\ PredEval(a1.pred, RootEvent(m))
    THEN CallCallback(CallPredicate(m, a1, RootEvent(m)), a2, RootEvent(m))
    ELSE Defer(CallPredicate(m, a1, RootEvent(m)), a2, Condition(<<>>, a1.pred))

\* lines 262-279: when(value, callback)
WhenValue(m, a1, a2) ==
    LET value == IF a1.t = "path" THEN StringOfText(a1.path) ELSE a1.v
    IN  IF value = Value(m.heap)
        THEN CallCallback(m, a2, RootEvent(m))
        ELSE Defer(m, a2, Condition(<<>>, IF a1.t = "path" THEN Pred("nvEqString", value)
                                          ELSE Pred("nvEq", value)))

When(m, a1, a2, a3) ==
    IF ArgTruthy(a1) /\ Truthy(Value(m.heap)) /\ ArgTruthy(a2) /\ ArgTruthy(a3)
    THEN WhenPath(m, a1, a2, a3)
    ELSE IF IsFunction(a1) THEN WhenPredicate(m, a1, a2)
    ELSE WhenValue(m, a1, a2)

(* ------------------ the callbacks and the call stack ------------------ *)
\* callback(e), for the callbacks of the model
Invoke(m, f) ==
    LET m1 == [m EXCEPT !.log = Append(@, LogEntry("call", f.c, f.id, f.e, m, TRUE))]
        v == Value(m.heap)
        a == IF IsObject(v) THEN GetField(m.heap, v, "a") ELSE Undefined
    IN  CASE Script(f.c) = "bump" ->
               IF v \in Nums /\ v < MaxNum
               THEN Push([m1 EXCEPT !.nwr = @ + 1], <<SetValueFrame(v + 1)>>)
               ELSE m1
          [] Script(f.c) = "bumpA" ->
               IF a \in Nums /\ a < MaxNum
               THEN Push([m1 EXCEPT !.nwr = @ + 1], <<AssignFrame(v, "a", a + 1)>>)
               ELSE m1
          [] Script(f.c) = "adder" -> AddChangeListener(m1, Other(f.c), FALSE, NoCondition)
          [] Script(f.c) = "readd" ->
               AddChangeListener(RemoveChangeListener(m1, f.c), f.c, FALSE, NoCondition)
          \* e => { w.addChangeListener(cb) } and e => { w.when(() => false, cb) },
          \* cb the callback itself; the when() takes the branch of lines 245-261,
          \* where the predicate is false and cb is registered once with it
          [] Script(f.c) = "again" -> AddChangeListener(m1, f.c, FALSE, NoCondition)
          [] Script(f.c) = "whenAgain" ->
               AddChangeListener(m1, f.c, TRUE, Condition(<<>>, Pred("never", 0)))
          [] Script(f.c) = "resolve" -> [m1 EXCEPT !.settled = @ + 1]
          [] Script(f.c) = "notAFunction" -> Unwind(m, "TypeError")
          [] OTHER -> m1

\* one step: the top frame is popped and its code runs
Step(m) ==
    LET f == m.stack[Len(m.stack)]
        m0 == [m EXCEPT !.stack = SubSeq(@, 1, Len(@) - 1), !.fuel = @ - 1]
    IN  CASE f.k = "assign" -> Assign(m0, f.obj, f.p, f.v)
          [] f.k = "assignRet" -> Assign(m0, f.obj, f.p, m0.ret)
          [] f.k = "trap" -> Trap(m0, f)
          [] f.k = "dispatch" -> Dispatch(m0, f)
          [] f.k = "deepProxy" -> DeepProxy(m0, f)
          [] f.k = "deepLoop" -> DeepLoop(m0, f)
          [] f.k = "createProxy" -> CreateProxy(m0, f)
          [] f.k = "run" -> RunCallbacks(m0, f)
          [] f.k = "invoke" -> Invoke(m0, f)
          [] f.k = "after" -> AfterCallback(m0, f)
          [] f.k = "setValue" -> SetValue(m0, f)

\* the call runs to completion (or until it is cut off, out of steps)
\* at most n steps of the call, halved so that the evaluation stays shallow
RECURSIVE RunFor(_, _)
RunFor(m, n) ==
    IF Len(m.stack) = 0 \/ n = 0 THEN m
    ELSE IF n = 1 THEN Step(m)
    ELSE CHOOSE r \in {RunFor(h, n - (n \div 2)) : h \in {RunFor(m, n \div 2)}} : TRUE
Run(m) ==
    LET r == RunFor(m, m.fuel)
    IN  IF Len(r.stack) = 0 THEN r ELSE [r EXCEPT !.cut = TRUE, !.stack = <<>>]

(* --------------------------- construction ----------------------------- *)
\* The objects a client passes in: flat is { a: 1 }, nested is { a: { b: 1 } }.
\* Literal(h, shape) allocates the raw objects and returns the reference.
Shapes == {"flat", "nested"}
Literal(h, shape) ==
    IF shape = "flat" THEN Alloc(h, RawCell(<< <<"a", 1>> >>))
    ELSE LET inner == Alloc(h, RawCell(<< <<"b", 1>> >>))
         IN  Alloc(inner.h, RawCell(<< <<"a", inner.ret>> >>))

\* the heap before the constructor runs: the literal { value: initialValue },
\* with the reference RootProxy set aside for the Proxy _createProxy makes of it
BlankHeap == <<RawCell(<<>>), ProxyCell(Container)>>
ContainerLiteral(h, initialValue) == PutField(h, Container, "value", initialValue)

\* constructor(initialValue): this._proxy = this._deepProxy({ value: initialValue })
Constructor(h) ==
    Run(Push(MachineOf(h, <<>>, {}, [c \in Registrable |-> NoCondition], Undefined),
             <<DeepLoopFrame(Container, Entries(h, Container), 1)>>))

\* the initial values of the runs: 1, undefined and the object shapes
InitialMachines ==
    {Constructor(ContainerLiteral(BlankHeap, v)) : v \in {1, Undefined}}
    \cup {LET l == Literal(BlankHeap, sh)
          IN  Constructor(ContainerLiteral(l.h, l.ret)) : sh \in Shapes}

(* ------------------------------ actions ------------------------------- *)
Compact(cbs) == SelectSeq(cbs, LAMBDA c : c # Tomb)
\* the invocations of c that the dispatch loop made in the trace lg
Calls(lg, c) ==
    Cardinality({i \in 1..Len(lg) : lg[i].kind = "call" /\ lg[i].cb = c /\ lg[i].eid > 0})

\* How each callback was last registered by the client, and the invocations
\* since: observation only, no operation reads it
NotRegistered == [once |-> FALSE, cond |-> NoCondition, how |-> "none", calls |-> 0]
Registration(how, once, cond) == [once |-> once, cond |-> cond, how |-> how, calls |-> 0]

Snapshot ==
    [predicates |-> predicates, heap |-> heap, callbacks |-> callbacks,
     toRemove |-> toRemove, oldValue |-> oldValue, reg |-> reg, value |-> Value(heap)]

Op(name, c, x, path) == [path |-> path, cb |-> c, x |-> x, name |-> name]

\* a promise made by promiseWhen: state is "none" before the call, then
\* "pending" or "resolved"; ran counts the runs of its continuation
\* twin is what when() would have done with a client callback, given the same
\* arguments in the same state: its registration, and its invocations in the call
NoPromise == [state |-> "none", ran |-> 0, twin |-> NotRegistered]

\* the end of a call: the instance's fields as the call left them, the trace of
\* the call, and the state it started from
CommitAll(m, op, newReg, pr) ==
    /\ heap' = m.heap
    /\ callbacks' = Compact(m.callbacks)
    /\ toRemove' = m.toRemove
    /\ predicates' = m.predicates
    /\ oldValue' = m.oldValue
    /\ log' = m.log
    /\ reg' = [c \in CB |-> [newReg[c] EXCEPT !.calls = @ + Calls(m.log, c)]]
    /\ last' = [nev |-> m.nev, nwr |-> m.nwr, cut |-> m.cut, thrown |-> m.thrown,
                deferred |-> m.deferred, op |-> op, pre |-> Snapshot]
    /\ nops' = nops + 1
    /\ script' = script
    /\ order' = m.order
    /\ promise' = pr
\* res() settles a pending promise, and has no effect on a settled one
Commit(m, op, newReg) ==
    CommitAll(m, op, newReg, IF promise.state = "pending" /\ m.settled > 0
                             THEN [promise EXCEPT !.state = "resolved"]
                             ELSE promise)

\* the state after new Watchable(x), for the initial values and the callback
\* bodies of a family of runs
InitWith(machines, scripts) ==
    \E m \in machines, sc \in scripts :
        /\ script = sc
        /\ order = <<>>
        /\ promise = NoPromise
        /\ heap = m.heap
        /\ callbacks = <<>>
        /\ toRemove = {}
        /\ predicates = [c \in Registrable |-> NoCondition]
        /\ oldValue = Undefined
        /\ log = <<>>
        /\ reg = [c \in CB |-> NotRegistered]
        /\ last = [nev |-> 0, nwr |-> 0, cut |-> FALSE, thrown |-> "none",
                   deferred |-> FALSE, op |-> Op("new", 0, Undefined, <<>>),
                   pre |-> [predicates |-> [c \in Registrable |-> NoCondition],
                            heap |-> <<>>,
                            callbacks |-> <<>>, toRemove |-> {},
                            oldValue |-> Undefined,
                            reg |-> [c \in CB |-> NotRegistered],
                            value |-> Undefined]]
        /\ nops = 0

Init == InitWith(InitialMachines, {DefaultScripts})

\* w.value = x, x a number or a string
SetPrimitiveCall(x) ==
    \E m \in {Run(Push([Machine EXCEPT !.nwr = IF x = Value(heap) THEN 0 ELSE 1],
                          <<SetValueFrame(x)>>))} :
        Commit(m, Op("set", 0, x, <<>>), reg)
SetPrimitive(x) == nops < MaxOps /\ SetPrimitiveCall(x)

\* w.value = w.value
SetSame ==
    /\ nops < MaxOps
    /\ \E m \in {Run(Push(Machine, <<SetValueFrame(Value(heap))>>))} :
          Commit(m, Op("setSame", 0, Value(heap), <<>>), reg)

\* w.value = { a: 1 } or w.value = { a: { b: 1 } }
SetObjectCall(sh) ==
    \E l \in {Literal(heap, sh)} :
       \E m \in {Run(Push([Machine EXCEPT !.heap = l.h, !.nwr = 1],
                          <<SetValueFrame(l.ret)>>))} :
          Commit(m, Op("setObject", 0, l.ret, <<>>), reg)
SetObject(sh) == nops < MaxOps /\ SetObjectCall(sh)

\* w.value.k1...kn.p = x: the containers are read through .value, then the write
WriteCall(path, p, x) ==
    \E r \in {GetNestedValue(heap, path)} :
       /\ IsObject(r.value)
       /\ \E m \in {Run(Push([Machine EXCEPT !.nwr = IF GetField(heap, r.value, p) = x
                                                     THEN 0 ELSE 1],
                             <<AssignFrame(r.value, p, x)>>))} :
             Commit(m, Op("write", 0, x, Append(path, p)), reg)
Write(path, p, x) == nops < MaxOps /\ WriteCall(path, p, x)

\* w.addChangeListener(c, { once, condition })
AddListenerCall(c, once, cond) ==
    Commit(AddChangeListener(Machine, c, once, cond), Op("add", c, Undefined, <<>>),
           [reg EXCEPT ![c] = Registration("add", once, cond)])
AddListener(c, once, cond) == nops < MaxOps /\ AddListenerCall(c, once, cond)

\* w.removeChangeListener(c)
RemoveListenerCall(c) ==
    Commit(RemoveChangeListener(Machine, c), Op("remove", c, Undefined, <<>>),
           [reg EXCEPT ![c] = NotRegistered])
RemoveListener(c) == nops < MaxOps /\ RemoveListenerCall(c)

Clear ==
    /\ nops < MaxOps
    /\ Commit(ClearListeners(Machine), Op("clear", 0, Undefined, <<>>),
              [c \in CB |-> NotRegistered])

\* w.when(predicateFn, cb)
WhenFnCall(p, c) ==
    \E m \in {Run(When(Machine, FnArg(p), CbArg(c), NoArg))} :
       Commit(m, Op("whenFn", c, p.k, <<>>),
              IF m.deferred
              THEN [reg EXCEPT ![c] = Registration("whenFn", TRUE, Condition(<<>>, p))]
              ELSE reg)
WhenFn(p, c) == nops < MaxOps /\ WhenFnCall(p, c)

\* w.when(value, cb)
WhenVal(v, c) ==
    /\ nops < MaxOps
    /\ \E m \in {Run(When(Machine, ValArg(v), CbArg(c), NoArg))} :
          Commit(m, Op("whenValue", c, v, <<>>),
                 IF m.deferred
                 THEN [reg EXCEPT ![c] = Registration("whenValue", TRUE,
                                                       Condition(<<>>, Pred("nvEq", v)))]
                 ELSE reg)

\* the options.condition of the addChangeListener calls of the runs
Conditions == {NoCondition, Condition(<<>>, Pred("nvGe", 2))}
\* the property writes of the runs: .value.a.b = 2 and .value.a = 2
Writes == {<< <<"a">>, "b", 2 >>, << <<>>, "a", 2 >>}
\* the predicates e => e.newValue >= k given to when
Thresholds == {1, 2}

Next ==
    \/ \E x \in 1..MaxNum : SetPrimitive(x)
    \/ SetSame
    \/ \E sh \in Shapes : SetObject(sh)
    \/ \E w \in Writes : Write(w[1], w[2], w[3])
    \/ \E c \in CB, once \in BOOLEAN, cond \in Conditions : AddListener(c, once, cond)
    \/ \E c \in CB : RemoveListener(c)
    \/ Clear
    \/ \E c \in CB, k \in Thresholds : WhenFn(Pred("nvGe", k), c)
    \/ \E c \in CB : WhenVal(2, c)

Spec == Init /\ [][Next]_vars

\* ---- the property-path overloads of when ----

\* the calls of a run of the property-path overloads
MaxPathOps == 2

\* new Watchable({ a: 0 })
ZeroLiteral(h) == Alloc(h, RawCell(<< <<"a", 0>> >>))
\* the initial values of these runs: also 0 and { a: 0 }
PathMachines ==
    InitialMachines
    \cup {Constructor(ContainerLiteral(BlankHeap, 0))}
    \cup {LET l == ZeroLiteral(BlankHeap) IN Constructor(ContainerLiteral(l.h, l.ret))}
\* callback 1 does nothing, callback 2 is e => { w.value.a++ }
PathScripts == {[c \in CB |-> IF c = 2 THEN "bumpA" ELSE "noop"]}
PathInit == InitWith(PathMachines, PathScripts)

\* w.when(path, v, cb)
WhenPathValue(path, v, c) ==
    /\ nops < MaxPathOps
    /\ \E m \in {Run(When(Machine, PathArg(path), ValArg(v), CbArg(c)))} :
          Commit(m, Op("whenPathValue", c, v, path),
                 IF m.deferred
                 THEN [reg EXCEPT ![c] = Registration("whenPath", TRUE,
                                                       Condition(path, Pred("resEq", v)))]
                 ELSE reg)

\* w.when(path, predicateFn, cb)
WhenPathFn(path, p, c) ==
    /\ nops < MaxPathOps
    /\ \E m \in {Run(When(Machine, PathArg(path), FnArg(p), CbArg(c)))} :
          Commit(m, Op("whenPathFn", c, p.k, path),
                 IF m.deferred
                 THEN [reg EXCEPT ![c] = Registration("whenPath", TRUE, Condition(path, p))]
                 ELSE reg)

\* the paths written with brackets: a["b"], a["b c"] and a.b["c"]
BracketPaths ==
    {<<"a", "[", "\"", "b", "\"", "]">>,
     <<"a", "[", "\"", "b", " ", "c", "\"", "]">>,
     <<"a", ".", "b", "[", "\"", "c", "\"", "]">>}
\* w.when(s, predicateFn, cb), s one of these
WhenBracketPath(s, p, c) ==
    /\ nops < MaxPathOps
    /\ \E m \in {Run(When(Machine, TextArg(s), FnArg(p), CbArg(c)))} :
          Commit(m, Op("whenPathFn", c, p.k, ParsePath(s)),
                 IF m.deferred
                 THEN [reg EXCEPT ![c] = Registration("whenPath", TRUE,
                                                       Condition(ParsePath(s), p))]
                 ELSE reg)

\* w.value.a = x
WriteA(x) == nops < MaxPathOps /\ WriteCall(<<>>, "a", x)

\* the paths given to when: "a", "a.b" and "x.b"
WhenPaths == {PathStrings[i] : i \in 1..Len(PathStrings)}
\* the expected values and the written values of these runs
PathValues == {0, 1}
\* the predicate e => e.res >= 1 and the predicate e => e.res === undefined
PathPredicates == {Pred("resGe", 1), Pred("resUndefined", 0)}

PathNext ==
    \/ \E path \in WhenPaths, v \in PathValues, c \in CB : WhenPathValue(path, v, c)
    \/ \E path \in WhenPaths, p \in PathPredicates, c \in CB : WhenPathFn(path, p, c)
    \/ \E x \in PathValues : WriteA(x)
    \/ \E s \in BracketPaths, p \in PathPredicates, c \in CB : WhenBracketPath(s, p, c)

PathSpec == PathInit /\ [][PathNext]_vars

(* ------------------------------- claims ------------------------------- *)
CallEntries(c) == {i \in 1..Len(log) : log[i].kind = "call" /\ log[i].cb = c}
\* the invocations of c made by the dispatch of event id
CallsFor(c, id) == {i \in CallEntries(c) : log[i].eid = id}
PredEntries(c) == {i \in 1..Len(log) : log[i].kind = "pred" /\ log[i].cb = c}
Unconditional(c) == IsRegistered(last.pre.callbacks, c) /\ ~last.pre.predicates[c].has
Mutation == last.op.name \in {"set", "setObject", "write"}

\* C1: on a Watchable holding a primitive a, with an unconditional listener cb,
\* the assignment .value = b (b a primitive, b # a) invokes cb exactly once for
\* that assignment, with newValue = b and oldValue = a; a cb that is the only
\* listener and writes nothing is invoked exactly once in all.
C1_PrimitiveChange ==
    (last.op.name = "set" /\ ~IsObject(last.pre.value) /\ last.op.x # last.pre.value) =>
        \A c \in CB : (Unconditional(c) /\ c \notin last.pre.toRemove) =>
            /\ Cardinality(CallsFor(c, 1)) = 1
            /\ \A i \in CallsFor(c, 1) :
                   /\ log[i].e.newValue = last.op.x
                   /\ log[i].e.oldValue = last.pre.value
            /\ (Script(c) = "noop" /\ last.pre.callbacks = <<c>>) =>
                   Cardinality(CallEntries(c)) = 1

C1_Witness ==
    /\ last.op.name = "set" /\ last.pre.value = 1 /\ last.op.x = 2
    /\ last.pre.callbacks = <<1>> /\ ~last.pre.predicates[1].has
    /\ Cardinality(CallEntries(1)) = 1

\* C2: assigning the value already held (.value = x with x === .value, x a
\* primitive or the object reference .value returns) invokes no listener.
C2_NoOpSuppression ==
    (last.op.name \in {"set", "setSame"} /\ last.op.x = last.pre.value) =>
        \A i \in 1..Len(log) : log[i].kind # "call"

\* the heap new Watchable(x) leaves, x a literal of the shape sh
ConstructedWith(sh) ==
    LET l == Literal(BlankHeap, sh)
    IN  Constructor(ContainerLiteral(l.h, l.ret)).heap
\* .value.a = ... .b = 2 on the Watchable constructed with { a: { b: 1 } }
NestedWrite ==
    /\ last.op.name = "write" /\ last.op.path = <<"a", "b">> /\ last.op.x = 2
    /\ last.pre.heap = ConstructedWith("nested")
\* what reading .value.a returns
ValueA == GetField(heap, Value(heap), "a")
Dispatched == {i \in 1..Len(log) : log[i].kind \in {"call", "pred"}}

\* C3 (as the code has it): on the Watchable constructed with {a:{b:1}}, the
\* write .value.a.b = 2 dispatches exactly one event; every listener sees
\* property "b", newValue 2, oldValue 1, and a target that is the raw `a`
\* object - the target of the Proxy that .value.a returns, not that Proxy;
\* every unconditional listener is invoked exactly once.
C3_NestedMutation ==
    NestedWrite =>
        /\ last.nev = 1
        /\ \A i \in Dispatched :
               /\ log[i].eid = 1
               /\ log[i].e.property = "b"
               /\ log[i].e.newValue = 2
               /\ log[i].e.oldValue = 1
               /\ log[i].e.target = RawOf(heap, ValueA)
               /\ log[i].e.target # ValueA
        /\ \A c \in CB : Unconditional(c) => Cardinality(CallEntries(c)) = 1

C3_Witness ==
    /\ NestedWrite
    /\ last.pre.callbacks = <<1>> /\ ~last.pre.predicates[1].has
    /\ Cardinality(CallEntries(1)) = 1
    /\ \A i \in CallEntries(1) : log[i].e.target = RawOf(heap, ValueA)

\* C3 as stated: the target of that event is identical to what .value.a returns
C3_TargetIsValueA ==
    NestedWrite =>
        /\ last.nev = 1
        /\ \A i \in Dispatched :
               /\ log[i].e.property = "b"
               /\ log[i].e.newValue = 2
               /\ log[i].e.oldValue = 1
               /\ log[i].e.target = ValueA

\* C4: every write that changes an observed slot, by the client or by a
\* callback, dispatches exactly one event: the events of a call are as many
\* as its changing writes.
C4_OneEventPerMutation ==
    (Mutation /\ ~last.cut) => last.nev = last.nwr

\* C5: a dispatch on which a listener's predicate returns false does not invoke
\* its callback; a listener whose predicate was false on every dispatch of a
\* call is still registered, with its once flag and its condition as before.
C5_PredicateGating ==
    /\ \A i \in 1..Len(log) :
           (log[i].kind = "pred" /\ ~log[i].ok) => CallsFor(log[i].cb, log[i].eid) = {}
    /\ \A c \in CB :
           (PredEntries(c) # {} /\ \A i \in PredEntries(c) : ~log[i].ok) =>
               /\ IsRegistered(callbacks, c)
               /\ (c \in toRemove) = (c \in last.pre.toRemove)
               /\ predicates[c] = last.pre.predicates[c]

C5_Witness ==
    \E c \in CB :
        /\ c \in last.pre.toRemove
        /\ PredEntries(c) # {} /\ \A i \in PredEntries(c) : ~log[i].ok
        /\ CallEntries(c) = {}
        /\ IsRegistered(callbacks, c) /\ c \in toRemove

\* C6: a listener registered with once = true is invoked at most once by the
\* dispatch loop since its registration, and is not registered after that
\* invocation.
C6_OneShot ==
    \A c \in CB :
        (reg[c].how # "none" /\ reg[c].once) =>
            /\ reg[c].calls <= 1
            /\ reg[c].calls = 1 => ~IsRegistered(callbacks, c)

\* C7: a listener the client last registered with once false or absent stays
\* registered, and, if it has no predicate, it is invoked exactly once for every
\* event dispatched while it is registered.
C7_Persistent ==
    \A c \in CB :
        /\ (reg[c].how = "add" /\ ~reg[c].once) => IsRegistered(callbacks, c)
        /\ (/\ last.pre.reg[c].how = "add" /\ ~last.pre.reg[c].once
            /\ ~last.pre.reg[c].cond.has
            /\ last.op.name \in {"set", "setSame", "setObject", "write"}) =>
               \A id \in 1..last.nev : Cardinality(CallsFor(c, id)) = 1

\* the event when() builds of the state the call starts in, lines 246-250 and 263-267
PreRootEvent ==
    ChangeEvent(last.pre.value, last.pre.oldValue, NoProperty, Undefined, last.pre.value)
\* when(predicateFn, cb) whose predicateFn returned true at the call, or
\* when(value, cb) with value === .value at the call
WhenHolds ==
    \/ /\ last.op.name = "whenFn"
       /\ \E i \in 1..Len(log) : log[i].kind = "when" /\ log[i].ok
    \/ /\ last.op.name = "whenValue"
       /\ last.op.x = last.pre.value

\* C8: when the condition holds at the call, when() invokes cb exactly once itself,
\* with the event {newValue: value, oldValue, root: value} of the state it was
\* called in, and registers nothing: no callback becomes a listener, becomes
\* once, or gets a condition; a cb that was no listener is invoked once in all.
C8_WhenImmediate ==
    WhenHolds =>
        /\ ~last.deferred
        /\ Cardinality(CallsFor(last.op.cb, 0)) = 1
        /\ \A i \in 1..Len(log) :
               (log[i].kind = "call" /\ log[i].eid = 0) =>
                   log[i].cb = last.op.cb /\ log[i].e = PreRootEvent
        /\ \A c \in CB :
               /\ IsRegistered(callbacks, c) => IsRegistered(last.pre.callbacks, c)
               /\ c \in toRemove => c \in last.pre.toRemove
               /\ predicates[c] \in {last.pre.predicates[c], NoCondition}
        /\ ~IsRegistered(last.pre.callbacks, last.op.cb) =>
               Cardinality(CallEntries(last.op.cb)) = 1

C8_Witness ==
    /\ last.op.name = "whenFn" /\ WhenHolds
    /\ ~IsRegistered(last.pre.callbacks, last.op.cb)
    /\ Cardinality(CallEntries(last.op.cb)) = 1
    /\ ~IsRegistered(callbacks, last.op.cb)
    /\ last.pre.callbacks # <<>>

\* C9: when(predicateFn, cb) whose predicateFn is false at the call does not
\* invoke cb in the call, and cb is invoked at most once afterwards.
C9_WhenDeferred ==
    /\ (last.op.name = "whenFn" /\ last.deferred) => CallEntries(last.op.cb) = {}
    /\ \A c \in CB : reg[c].how = "whenFn" => reg[c].calls <= 1

\* C10: a cb given to when(value, cb) is only invoked while .value === value: by
\* the call itself, or later by the dispatch loop.
C10_WhenValue ==
    /\ last.op.name = "whenValue" =>
           \A i \in CallsFor(last.op.cb, 0) : log[i].value = last.op.x
    /\ \A c \in CB :
           last.pre.reg[c].how = "whenValue" =>
               \A i \in CallEntries(c) :
                   log[i].eid > 0 => log[i].value = last.pre.reg[c].cond.pred.k

\* ---- promiseWhen ----

\* the calls of a run with a promise
MaxPromiseOps == 2

\* promiseWhen(predicateValueOrProp, value), lines 148-162: the executor calls when
PromiseWhen(m, a1, a2) ==
    IF ArgTruthy(a2) THEN When(m, a1, a2, CbArg(Resolver))
    ELSE When(m, a1, CbArg(Resolver), NoArg)
\* when(args, cb) with the arguments of promiseWhen(args) and a client callback
WhenTwin(m, a1, a2, c) ==
    IF a2.t = "none" THEN When(m, a1, CbArg(c), NoArg) ELSE When(m, a1, a2, CbArg(c))

\* a promise whose continuation runs inside res()
SettledAtOnce(m) ==
    [state |-> IF m.settled > 0 THEN "resolved"
               ELSE IF m.thrown # "none" THEN "rejected" ELSE "pending",
     ran |-> IF m.settled > 0 THEN 1 ELSE 0]
\* the promise as promiseWhen returns it: settled if the executor called res()
\* or threw, and its continuation not run
Settled(m) ==
    [state |-> IF m.settled > 0 THEN "resolved"
               ELSE IF m.thrown # "none" THEN "rejected" ELSE "pending",
     ran |-> 0]
\* what the machine t of when(args, c) did: the registration of c and the
\* invocations of c
TwinOf(t, c) ==
    [Registration(IF IsRegistered(t.callbacks, c) THEN "when" ELSE "none",
                  c \in t.toRemove, t.predicates[c])
     EXCEPT !.calls = Cardinality({i \in 1..Len(t.log) :
                                      t.log[i].kind = "call" /\ t.log[i].cb = c})]

\* p = w.promiseWhen(a1, a2), the first promise of the run; the client
\* callback 1 is not used otherwise in these runs
PromiseWhenCall(a1, a2) ==
    /\ nops < MaxPromiseOps
    /\ promise.state = "none"
    /\ \E m \in {Run(PromiseWhen(Machine, a1, a2))}, t \in {Run(WhenTwin(Machine, a1, a2, 1))} :
          CommitAll(m, Op("promiseWhen", Resolver, a2.v, ParsePath(a1.path)), reg,
                    [state |-> Settled(m).state, ran |-> Settled(m).ran,
                     twin |-> TwinOf(t, 1)])

\* w.value = x, x a number or a string
SetRoot(x) == nops < MaxPromiseOps /\ SetPrimitiveCall(x)
\* w.value.a = x
PromiseWriteA(x) == nops < MaxPromiseOps /\ WriteCall(<<>>, "a", x)

\* p.then(continuation): the continuation of a resolved promise runs once, as a
\* job of the microtask queue, after the call that resolved the promise returned
RunContinuation ==
    /\ promise.state = "resolved"
    /\ promise.ran = 0
    /\ promise' = [promise EXCEPT !.ran = 1]
    /\ UNCHANGED <<heap, callbacks, toRemove, predicates, oldValue, log, reg, last, nops,
                   script, order>>

\* new Watchable("a") besides the other initial values
PromiseMachines == PathMachines \cup {Constructor(ContainerLiteral(BlankHeap, StringOf(<<"a">>)))}
PromiseInit == InitWith(PromiseMachines, {DefaultScripts})

\* the arguments of promiseWhen: (predicateFn), (value), (path, value),
\* (path, predicateFn)
PromiseArgs ==
    {<<FnArg(Pred("nvGe", 2)), NoArg>>}
    \cup {<<ValArg(v), NoArg>> : v \in {0, 2}}
    \cup {<<PathArg(path), ValArg(v)>> : path \in WhenPaths, v \in PathValues}
    \cup {<<PathArg(path), FnArg(Pred("resGe", 1))>> : path \in WhenPaths}

PromiseNext ==
    \/ \E a \in PromiseArgs : PromiseWhenCall(a[1], a[2])
    \/ \E x \in {0, 2, StringOf(<<"a">>)} : SetRoot(x)
    \/ \E x \in PathValues : PromiseWriteA(x)
    \/ RunContinuation

PromiseSpec == PromiseInit /\ [][PromiseNext]_vars

\* ---- listeners that register and remove listeners during a dispatch ----

\* the calls of a run of these
MaxDispatchOps == 4

\* callback 2 does nothing; callback 1 does nothing, or registers callback 2,
\* or removes and registers itself
DispatchScripts == {[c \in CB |-> IF c = 1 THEN sc ELSE "noop"] : sc \in {"noop", "adder", "readd"}}
DispatchInit == InitWith({Constructor(ContainerLiteral(BlankHeap, 0))}, DispatchScripts)

\* w.addChangeListener(c)
Register(c) == nops < MaxDispatchOps /\ AddListenerCall(c, FALSE, NoCondition)
\* w.removeChangeListener(c)
Unregister(c) == nops < MaxDispatchOps /\ RemoveListenerCall(c)
\* w.value = x
Assignment(x) == nops < MaxDispatchOps /\ SetPrimitiveCall(x)

DispatchNext ==
    \/ \E c \in CB : Register(c)
    \/ \E c \in CB : Unregister(c)
    \/ \E x \in 1..MaxNum : Assignment(x)

DispatchSpec == DispatchInit /\ [][DispatchNext]_vars

\* ---- a once listener that registers itself again ----

\* the calls of a run of these
MaxOnceOps == 4

\* new Watchable(0); callback 1 is e => { w.addChangeListener(cb1) } or
\* e => { w.when(() => false, cb1) }, callback 2 does nothing
OnceInit ==
    InitWith({Constructor(ContainerLiteral(BlankHeap, 0))},
             {[c \in CB |-> IF c = 1 THEN sc ELSE "noop"] : sc \in {"again", "whenAgain"}})

\* w.addChangeListener(c, { once }) and w.value = x
OnceNext ==
    \/ \E c \in CB, once \in BOOLEAN :
          nops < MaxOnceOps /\ AddListenerCall(c, once, NoCondition)
    \/ \E x \in 1..MaxNum : nops < MaxOnceOps /\ SetPrimitiveCall(x)

OnceSpec == OnceInit /\ [][OnceNext]_vars

\* ---- arrays ----

\* the calls of a run with an array
MaxArrayOps == 3

\* new Watchable({ a: [1, 1] })
ArrayLiteral(h) ==
    LET arr == Alloc(h, RawCell(<< <<"length", 2>>, <<"0", 1>>, <<"1", 1>> >>))
    IN  Alloc(arr.h, RawCell(<< <<"a", arr.ret>> >>))
ArrayInit ==
    InitWith({LET l == ArrayLiteral(BlankHeap) IN Constructor(ContainerLiteral(l.h, l.ret))},
             {[c \in CB |-> "noop"]})

\* Array.prototype.push called on the Proxy arr with one element:
\* len = arr.length; arr[len] = x; arr.length = len + 1
ArrayPush(m, arr, x) ==
    LET len == GetField(m.heap, arr, "length")
    IN  Push(m, <<AssignFrame(arr, "length", len + 1), AssignFrame(arr, ToString(len), x)>>)

\* w.value.a.push(x)
PushOnto(x) ==
    /\ nops < MaxArrayOps
    /\ \E arr \in {GetField(heap, Value(heap), "a")} :
          /\ GetField(heap, arr, "length") < MaxLen
          /\ \E m \in {Run(ArrayPush([Machine EXCEPT !.nwr = 1], arr, x))} :
                Commit(m, Op("push", 0, x, <<"a">>), reg)
\* w.value.a[i] = x
WriteIndex(i, x) == nops < MaxArrayOps /\ WriteCall(<<"a">>, ToString(i), x)
\* w.addChangeListener(c)
Listen(c) == nops < MaxArrayOps /\ AddListenerCall(c, FALSE, NoCondition)

ArrayNext ==
    \/ \E x \in 1..MaxNum : PushOnto(x)
    \/ \E i \in 0..1, x \in 1..MaxNum : WriteIndex(i, x)
    \/ \E c \in CB : Listen(c)

ArraySpec == ArrayInit /\ [][ArrayNext]_vars

\* ---- listeners with and without a property path ----

\* the calls of a run of these
MaxResOps == 3

\* new Watchable({ a: 1 }), with callbacks that do nothing
ResInit ==
    InitWith({LET l == Literal(BlankHeap, "flat") IN Constructor(ContainerLiteral(l.h, l.ret))},
             {[c \in CB |-> "noop"]})

\* the conditions of these runs: none, { predicate: e => e.newValue >= 1 } and
\* { propertyPath: "a", predicate: e => e.res >= 1 }
ResConditions ==
    {NoCondition, Condition(<<>>, Pred("nvGe", 1)), Condition(<<"a">>, Pred("resGe", 1))}

\* w.addChangeListener(c, { condition })
ListenIf(c, cond) == nops < MaxResOps /\ AddListenerCall(c, FALSE, cond)
\* w.value.a = x
ResWriteA(x) == nops < MaxResOps /\ WriteCall(<<>>, "a", x)

ResNext ==
    \/ \E c \in CB, cond \in ResConditions : ListenIf(c, cond)
    \/ \E x \in Nums : ResWriteA(x)

ResSpec == ResInit /\ [][ResNext]_vars

\* ---- objects attached after construction, and the oldValue slot ----

\* the calls of a run of these
MaxAttachOps == 4

\* new Watchable({ a: 1 }), with callbacks that do nothing
AttachMachine ==
    LET l == Literal(BlankHeap, "flat") IN Constructor(ContainerLiteral(l.h, l.ret))
AttachInit == InitWith({AttachMachine}, {[c \in CB |-> "noop"]})

\* the object literal { b: 1 }
LeafLiteral(h) == Alloc(h, RawCell(<< <<"b", 1>> >>))

\* w.value = { a: 1 } or w.value = { a: { b: 1 } }
AttachRoot(sh) == nops < MaxAttachOps /\ SetObjectCall(sh)
\* w.value.a = { b: 1 }
AttachNested ==
    /\ nops < MaxAttachOps
    /\ IsObject(Value(heap))
    /\ \E l \in {LeafLiteral(heap)} :
       \E m \in {Run(Push([Machine EXCEPT !.heap = l.h, !.nwr = 1],
                          <<AssignFrame(Value(heap), "a", l.ret)>>))} :
          Commit(m, Op("attach", 0, l.ret, <<"a">>), reg)
\* w.value.a = x and w.value.a.b = x
AttachWrite(path, p, x) == nops < MaxAttachOps /\ WriteCall(path, p, x)
\* w.addChangeListener(c)
AttachListen(c) == nops < MaxAttachOps /\ AddListenerCall(c, FALSE, NoCondition)
\* w.value = x, x a number
AttachNumber(x) == nops < MaxAttachOps /\ SetPrimitiveCall(x)
\* w.when(() => true, c)
WhenAlways(c) == nops < MaxAttachOps /\ WhenFnCall(Pred("always", 0), c)

AttachNext ==
    \/ \E sh \in Shapes : AttachRoot(sh)
    \/ AttachNested
    \/ \E w \in Writes : AttachWrite(w[1], w[2], w[3])
    \/ \E c \in CB : AttachListen(c)
    \/ \E x \in 1..MaxNum : AttachNumber(x)
    \/ \E c \in CB : WhenAlways(c)

AttachSpec == AttachInit /\ [][AttachNext]_vars

\* what the path of the call resolved to in the state the call started in
PreResolution == GetNestedValue(last.pre.heap, last.op.path).value
WhenPathCall == last.op.name \in {"whenPathValue", "whenPathFn"}

\* C11: when(path, value, cb) on an object root, for every expected value, 0
\* included: if the path resolves to value at the call, cb is invoked by the
\* call, once, with res and newValue the resolved value; otherwise cb is
\* registered as a once listener with the condition (path, e.res === value).
C11_WhenPathValue ==
    (last.op.name = "whenPathValue" /\ IsObject(last.pre.value)) =>
        IF PreResolution = last.op.x
        THEN /\ Cardinality(CallsFor(last.op.cb, 0)) = 1
             /\ \A i \in CallsFor(last.op.cb, 0) :
                    log[i].e.res = PreResolution /\ log[i].e.newValue = PreResolution
        ELSE /\ IsRegistered(callbacks, last.op.cb)
             /\ last.op.cb \in toRemove
             /\ predicates[last.op.cb] = Condition(last.op.path, Pred("resEq", last.op.x))

\* the listeners when(path, predicateFn, cb) registered
ByPathPredicate(r) == r.how = "whenPath" /\ r.cond.pred \in PathPredicates

\* C12: when(path, predicateFn, cb) whose predicateFn is false on the path's
\* resolution does not invoke cb in the call; afterwards the dispatch loop
\* invokes cb at most once, on an event whose res satisfies predicateFn, and
\* never again on later mutations.
C12_WhenPathFn ==
    /\ (last.op.name = "whenPathFn" /\ last.deferred) => CallEntries(last.op.cb) = {}
    /\ \A c \in CB :
           /\ ByPathPredicate(reg[c]) => reg[c].calls <= 1
           /\ ByPathPredicate(last.pre.reg[c]) =>
                  \A i \in CallEntries(c) :
                      log[i].eid > 0 => PredEval(last.pre.reg[c].cond.pred, log[i].e)

\* C13: when(path, value | predicateFn, cb) called while the root value is no
\* object - undefined, 0 or a truthy primitive - throws to its caller.
C13_NonObjectRootThrows ==
    (WhenPathCall /\ ~IsObject(last.pre.value)) => last.thrown # "none"

\* a path of two keys whose first key is missing or holds a number
Unresolved(h, path) ==
    /\ Len(path) = 2
    /\ ~IsObject(GetNestedValueUncaught(h, SubSeq(path, 1, 1)).value)
\* when(path, ...) called on an object root with a path that does not resolve,
\* the second argument truthy
UnresolvedCall ==
    /\ WhenPathCall /\ IsObject(last.pre.value)
    /\ last.op.name = "whenPathValue" => Truthy(last.op.x)
    /\ Unresolved(last.pre.heap, last.op.path)
WhenEntries == {i \in 1..Len(log) : log[i].kind = "when"}

\* C14: resolving a path whose intermediate key is missing or holds a value
\* that cannot be indexed yields undefined and throws nothing: when() called
\* with such a path returns normally, having compared or tested undefined, and
\* a dispatch gives undefined as res to a listener with such a path and goes on.
C14_ResolutionRecovers ==
    /\ \A i \in 1..Len(log) : log[i].e.res # Thrown
    /\ UnresolvedCall =>
           /\ last.thrown = "none"
           /\ \A i \in 1..Len(log) : log[i].eid = 0 => log[i].e.res = Undefined
           /\ last.op.name = "whenPathValue" =>
                  last.deferred /\ CallsFor(last.op.cb, 0) = {}
           /\ last.op.name = "whenPathFn" =>
                  /\ Cardinality(WhenEntries) = 1
                  /\ \A i \in WhenEntries : last.deferred = ~log[i].ok
    /\ last.op.name = "write" =>
           /\ last.thrown = "none"
           /\ \A c \in CB : \A i \in PredEntries(c) :
                  Len(last.pre.predicates[c].path) = 2 => log[i].e.res = Undefined

C14_Witness ==
    /\ last.op.name = "write" /\ last.thrown = "none" /\ last.nev = 1
    /\ \E c \in CB :
           /\ last.pre.predicates[c].path = <<"x", "b">>
           /\ PredEntries(c) # {}
           /\ \A i \in PredEntries(c) : log[i].e.res = Undefined /\ ~log[i].ok
           /\ IsRegistered(callbacks, c)

\* C15: promiseWhen mirrors when. When promiseWhen(args) returns, its promise
\* is resolved if and only if when(args, cb) called in the same state would
\* have invoked cb; and the callback that resolves the promise is registered
\* if and only if, and with the once flag and the condition with which, cb
\* would have been, so that the two fire at the same dispatch.
C15_PromiseMirrorsWhen ==
    last.op.name = "promiseWhen" =>
        /\ (promise.state = "resolved") = (promise.twin.calls > 0)
        /\ IsRegistered(callbacks, Resolver) = (promise.twin.how # "none")
        /\ IsRegistered(callbacks, Resolver) =>
               /\ (Resolver \in toRemove) = promise.twin.once
               /\ predicates[Resolver] = promise.twin.cond

\* C16: the promise of promiseWhen resolves at most once and its continuation
\* runs at most once, and only in a step that starts after the call which
\* resolved the promise has returned - also when the condition already holds
\* at the call of promiseWhen, which returns a resolved promise whose
\* continuation has not run.
C16_ResolvesOnceDeferred ==
    [][/\ promise.state = "none" => promise'.ran = 0
       /\ promise.state = "resolved" => promise'.state = "resolved"
       /\ promise'.ran <= 1
       /\ promise'.ran > promise.ran =>
              promise.state = "resolved" /\ UNCHANGED <<heap, callbacks, log, last>>]_vars

C16_Witness ==
    /\ last.op.name = "promiseWhen" /\ last.thrown = "none"
    /\ promise.state = "resolved" /\ promise.ran = 1
    /\ ~IsRegistered(callbacks, Resolver)

\* C17: registering a callback again replaces its registration: when
\* addChangeListener(cb, o) returns, cb is registered, is once exactly if
\* o.once is true, and has the condition of o, none if o has none - whatever
\* cb was registered with before.
C17_ReRegistrationReplaces ==
    \A c \in CB :
        (reg[c].how = "add" /\ last.op.name = "add" /\ last.op.cb = c) =>
            /\ IsRegistered(callbacks, c)
            /\ (c \in toRemove) = reg[c].once
            /\ predicates[c] = reg[c].cond

\* the callbacks the dispatch of event id invoked, in the order of the calls
RECURSIVE CallOrder(_, _)
CallOrder(lg, id) ==
    IF lg = <<>> THEN <<>>
    ELSE IF Head(lg).kind = "call" /\ Head(lg).eid = id
         THEN <<Head(lg).cb>> \o CallOrder(Tail(lg), id)
         ELSE CallOrder(Tail(lg), id)
\* an assignment that dispatched one event to callbacks that do nothing
PlainDispatch ==
    /\ last.op.name = "set" /\ last.nev = 1
    /\ \A c \in CB : Script(c) = "noop"

\* C18: a dispatch invokes the listeners in the order of their most recent
\* registration: a callback registered again while registered is invoked after
\* every listener registered before that second call.
C18_DispatchOrder ==
    PlainDispatch => CallOrder(log, 1) = order

\* C19: the listeners considered for an event are those registered when its
\* dispatch starts: an assignment invokes no callback that was not registered
\* when the assignment was made, even if a callback registers it meanwhile.
C19_StableSnapshot ==
    last.op.name = "set" =>
        \A c \in CB : CallEntries(c) # {} => IsRegistered(last.pre.callbacks, c)

\* C20: whatever the callbacks remove and register during the dispatch of an
\* event - a callback that removes and registers itself included - the
\* dispatch ends, and it invokes every unconditional listener registered at
\* its start exactly once.
C20_NoSkipNoDoubleFire ==
    (last.op.name = "set" /\ last.nev = 1) =>
        /\ ~last.cut
        /\ \A c \in CB : Unconditional(c) => Cardinality(CallsFor(c, 1)) = 1

\* C21: removeChangeListener(cb) never throws, whether cb is registered or
\* not, and leaves cb unregistered, not once and without a condition, the
\* other listeners as they were; an assignment or write made while cb is
\* removed does not invoke cb; and addChangeListener(cb) without options after
\* a removal makes cb a listener that is not once and has no condition.
C21_RemoveIdempotent ==
    \A c \in CB :
        /\ (last.op.name = "remove" /\ last.op.cb = c) =>
               /\ last.thrown = "none"
               /\ ~IsRegistered(callbacks, c)
               /\ c \notin toRemove
               /\ ~predicates[c].has
               /\ callbacks = Without(last.pre.callbacks, c)
               /\ toRemove = last.pre.toRemove \ {c}
               /\ \A d \in CB \ {c} : predicates[d] = last.pre.predicates[d]
        /\ (Mutation /\ last.pre.reg[c].how = "none") => CallEntries(c) = {}
        /\ (/\ last.op.name = "add" /\ last.op.cb = c
            /\ last.pre.reg[c].how = "none"
            /\ reg[c] = Registration("add", FALSE, NoCondition)) =>
               /\ IsRegistered(callbacks, c)
               /\ c \notin toRemove
               /\ ~predicates[c].has

\* the third call of a run removes a callback that is not registered
C21_Witness ==
    /\ last.op.name = "remove" /\ last.thrown = "none"
    /\ ~IsRegistered(last.pre.callbacks, last.op.cb)
    /\ last.pre.reg[last.op.cb].how = "none"
    /\ nops = 3
    /\ callbacks = <<>>

\* C22: clearListeners() leaves no listener behind - none in _callbacks, none
\* once, none with a condition, however each was registered - and an
\* assignment or write made while no listener is registered evaluates no
\* predicate and invokes no callback.
C22_ClearSilences ==
    /\ last.op.name = "clear" =>
           /\ last.thrown = "none"
           /\ callbacks = <<>>
           /\ toRemove = {}
           /\ \A c \in Registrable : ~predicates[c].has
    /\ (Mutation /\ last.pre.callbacks = <<>>) => Dispatched = {}

\* a clear of two listeners, one of them once and one with a condition
C22_Witness ==
    /\ last.op.name = "clear"
    /\ Len(last.pre.callbacks) = 2
    /\ last.pre.toRemove # {}
    /\ \E c \in CB : last.pre.predicates[c].has
    /\ \E c \in CB : last.pre.reg[c].how = "whenFn"
    /\ callbacks = <<>>

\* the predicate evaluations and invocations that dispatches made, in order
DispatchLog == SelectSeq(log, LAMBDA en : en.kind \in {"call", "pred"} /\ en.eid > 0)
\* the dispatch of a later event lies wholly between two steps of an earlier one
WellNested(lg) ==
    \A i, j, k \in 1..Len(lg) :
        (i < j /\ j < k /\ lg[i].eid = lg[k].eid) => lg[j].eid >= lg[i].eid

\* C23: a write a callback makes during a dispatch is dispatched to its end
\* before the dispatch it interrupted goes on, and that one then goes on with
\* its remaining listeners: with callbacks whose writes come to an end, every
\* assignment and write returns without an error, the dispatches of its events
\* are nested like calls, and every listener registered at the start, neither
\* once nor conditional, is invoked exactly once for each event.
C23_ReentrantMutation ==
    Mutation =>
        /\ ~last.cut
        /\ last.thrown = "none"
        /\ WellNested(DispatchLog)
        /\ \A c \in CB :
               (Unconditional(c) /\ c \notin last.pre.toRemove) =>
                   \A id \in 1..last.nev : Cardinality(CallsFor(c, id)) = 1

\* callback 2 writes during the dispatch of event 1; event 2 is dispatched to
\* both listeners, and then callback 1 gets event 1
C23_Witness ==
    /\ last.op.name = "set" /\ last.nev = 2 /\ ~last.cut
    /\ last.pre.callbacks = <<2, 1>>
    /\ [i \in 1..Len(DispatchLog) |-> <<DispatchLog[i].cb, DispatchLog[i].eid>>]
           = << <<2, 1>>, <<2, 2>>, <<1, 2>>, <<1, 1>> >>

\* the array .value.a before the call, and its length then
PreArray == GetField(last.pre.heap, last.pre.value, "a")
PreLength == GetField(last.pre.heap, PreArray, "length")
\* the events of the call, by their numbers
EventOf(id) == log[CHOOSE i \in 1..Len(log) : log[i].eid = id].e

C25_PrimitiveEventShape ==
    (last.op.name = "set" /\ ~IsObject(last.pre.value)) =>
        \A i \in Dispatched :
            log[i].eid = 1 =>
                /\ log[i].e.property = NoProperty
                /\ log[i].e.target = Undefined
                /\ log[i].e.newValue = last.op.x
                /\ log[i].e.oldValue = last.pre.value

\* C26: whenever a dispatch evaluates a predicate or invokes a callback with
\* an event e, e.root is what .value returns at that moment - also after an
\* earlier listener of the same dispatch assigned a new root.
C26_RootIsCurrentValue ==
    \A i \in Dispatched : log[i].eid > 0 => log[i].e.root = log[i].value

\* C27: a listener registered without a property path - with no condition, or
\* with a predicate only - is given events whose res is undefined by every
\* dispatch, whatever listeners are registered before it.
C27_ResOnlyWithPath ==
    \A i \in Dispatched :
        (log[i].eid > 0 /\ last.pre.predicates[log[i].cb].path = <<>>) =>
            log[i].e.res = Undefined

\* the Proxy layers around the raw object behind r
RECURSIVE Layers(_, _)
Layers(h, r) == IF Cell(h, r).proxy THEN 1 + Layers(h, Cell(h, r).target) ELSE 0
\* the objects among the field values of the objects rs
Children(h, rs) ==
    UNION {{Fields(h, r)[i][2] : i \in 1..Len(Fields(h, r))} : r \in rs}
        \cap (Base + 1..Base + Len(h))
\* the objects that reading from .value can reach: the root and what lies one,
\* two and three fields below it
ReachableObjects(h) ==
    LET l0 == {Value(h)} \cap (Base + 1..Base + Len(h))
        l1 == Children(h, l0)
        l2 == Children(h, l1)
        l3 == Children(h, l2)
    IN  l0 \cup l1 \cup l2 \cup l3

\* C28: in every state, every object that can be reached from the root is
\* behind exactly one Proxy - after construction, after .value = obj and after
\* an object was assigned to a nested slot.
C28_SingleLayer ==
    \A r \in ReachableObjects(heap) : Layers(heap, r) = 1

\* the object the write of the call stored into, and whether it was made after
\* the constructor had returned
WriteTarget ==
    GetNestedValue(last.pre.heap, SubSeq(last.op.path, 1, Len(last.op.path) - 1)).value
AttachedLater(r) == RawOf(last.pre.heap, r) > Base + Len(AttachMachine.heap)

\* C29: a write through .value that changes a field of an object that was
\* assigned after construction - as the new root or into a key below it, the
\* field at depth one or two - dispatches a change event of that write, and each
\* registered listener is invoked with it.
C29_AttachedObservable ==
    (last.op.name = "write" /\ last.nwr = 1 /\ AttachedLater(WriteTarget)) =>
        /\ last.nev >= 1
        /\ \A k \in 1..Len(last.pre.callbacks) :
               \E i \in CallEntries(last.pre.callbacks[k]) :
                   /\ log[i].eid > 0
                   /\ log[i].e.property = last.op.path[Len(last.op.path)]
                   /\ log[i].e.newValue = last.op.x
                   /\ log[i].e.target = RawOf(last.pre.heap, WriteTarget)

\* a listener is invoked once for w.value.a.b = 2, the object of b assigned to
\* w.value.a after construction
C29_Witness ==
    /\ last.op.name = "write" /\ last.op.path = <<"a", "b">> /\ last.nwr = 1
    /\ AttachedLater(WriteTarget)
    /\ ~AttachedLater(last.pre.value)
    /\ last.pre.callbacks = <<1>>
    /\ last.nev = 1
    /\ Cardinality(CallEntries(1)) = 1

\* C30: when w.value = x, x a number or an object, was called with no listener
\* registered, and the next call is a when() that invokes its callback at once,
\* the oldValue of the event of that callback is the value the root had before
\* the assignment.
C30_OldValueAfterRootAssignment ==
    [][(/\ last.op.name \in {"set", "setObject"}
        /\ last.pre.callbacks = <<>>
        /\ last'.op.name \in {"whenFn", "whenValue"})
       => \A i \in 1..Len(log') :
              (log'[i].kind = "call" /\ log'[i].eid = 0) =>
                  log'[i].e.oldValue = last.pre.value]_vars

\* the key sequences of up to three of the keys a, b and x
KeySeqs == UNION {[1..n -> {"a", "b", "x"}] : n \in 0..3}
\* what reading root[k1]...[kn] gives, undefined once a key is read from what is
\* no object
RECURSIVE ValueAt(_, _)
ValueAt(h, ks) ==
    IF ks = <<>> THEN Value(h)
    ELSE LET p == ValueAt(h, SubSeq(ks, 1, Len(ks) - 1))
         IN  IF IsObject(p) THEN GetField(h, p, ks[Len(ks)]) ELSE Undefined
\* the last object the keys before the last one lead to, or the container of
\* the root when they lead to none
RECURSIVE ParentAt(_, _)
ParentAt(h, ks) ==
    IF ks = <<>> THEN RootProxy
    ELSE LET v == ValueAt(h, SubSeq(ks, 1, Len(ks) - 1))
         IN  IF IsObject(v) THEN v ELSE ParentAt(h, SubSeq(ks, 1, Len(ks) - 1))

\* C31: for every sequence of keys the resolver returns the leaf value - the
\* root value for no keys, undefined when the walk fails part-way - and as the
\* parent the last object the walk reached before its last key; the event of
\* a when(path, ...) call carries the two as res and target.
C31_Resolver ==
    /\ \A ks \in KeySeqs :
           GetNestedValue(heap, ks) = [value |-> ValueAt(heap, ks),
                                       obj |-> ParentAt(heap, ks)]
    /\ GetNestedValue(heap, <<>>).value = Value(heap)
    /\ WhenPathCall =>
           \A i \in 1..Len(log) : log[i].eid = 0 =>
               /\ log[i].e.res = ValueAt(last.pre.heap, last.op.path)
               /\ log[i].e.target = ParentAt(last.pre.heap, last.op.path)

\* when("a.b", ...) on { a: 1 }: the walk fails at b, the leaf is undefined and
\* the parent is the root object
C31_Witness ==
    /\ WhenPathCall /\ last.op.path = <<"a", "b">>
    /\ IsObject(last.pre.value)
    /\ GetField(last.pre.heap, last.pre.value, "a") = 1
    /\ \E i \in 1..Len(log) :
           /\ log[i].eid = 0
           /\ log[i].e.res = Undefined
           /\ log[i].e.target = last.pre.value

\* C32: when when(path, ...) invokes its callback in the call, the event's
\* property is the last key of the parsed path and its target the object that
\* key is read from, for dotted, bracket-quoted and mixed paths.
C32_LeafOfParsedPath ==
    WhenPathCall =>
        \A i \in CallsFor(last.op.cb, 0) :
            /\ log[i].e.property = last.op.path[Len(last.op.path)]
            /\ log[i].e.target = ParentAt(last.pre.heap, last.op.path)

\* when(path, ..., cb) threw because the root is no object
UsageError == WhenPathCall /\ last.thrown = "usage"

\* C33: when the three-argument when throws because the root is no object,
\* nothing else has happened: no listener, once flag or condition was added,
\* neither the callback nor the predicate was called, the root value and the
\* objects are as before, and nothing was deferred.
C33_ThrowLeavesState ==
    UsageError =>
        /\ callbacks = last.pre.callbacks
        /\ toRemove = last.pre.toRemove
        /\ predicates = last.pre.predicates
        /\ heap = last.pre.heap
        /\ oldValue = last.pre.oldValue
        /\ log = <<>>
        /\ ~last.deferred
        /\ last.nev = 0

\* w.when("a.b", e => e.res >= 1, cb) on new Watchable(1) has thrown
C33_Witness ==
    /\ UsageError /\ last.op.name = "whenPathFn" /\ last.op.path = <<"a", "b">>
    /\ last.pre.value = 1
    /\ Value(heap) = 1
    /\ callbacks = <<>>

\* C34: in every state between the calls, every callback that has a once flag
\* (is in _toRemove) or a condition (an entry of _predicates) is a registered
\* callback (is in _callbacks).
C34_RegistryConsistent ==
    \A c \in Registrable :
        (c \in toRemove \/ predicates[c].has) => IsRegistered(callbacks, c)

\* a dispatch has invoked and removed a once listener that had a condition,
\* and left another listener registered
C34_Witness ==
    /\ last.op.name \in {"set", "write"} /\ last.nev >= 1
    /\ \E c \in CB :
           /\ c \in last.pre.toRemove /\ last.pre.predicates[c].has
           /\ CallEntries(c) # {}
           /\ ~IsRegistered(callbacks, c) /\ c \notin toRemove /\ ~predicates[c].has
           /\ IsRegistered(callbacks, Other(c))

\* the calls that only touch the registry: addChangeListener,
\* removeChangeListener, clearListeners, and a when() that deferred
RegistryCall ==
    \/ last.op.name \in {"add", "remove", "clear"}
    \/ last.op.name \in {"whenFn", "whenValue"} /\ last.deferred

\* C35: a call that only touches the registry leaves the root value and every
\* object as they were, constructs no event and invokes no listener callback.
C35_RegistryCallsArePure ==
    RegistryCall =>
        /\ heap = last.pre.heap
        /\ Value(heap) = last.pre.value
        /\ last.nev = 0
        /\ \A i \in 1..Len(log) : log[i].kind # "call"

\* when(e => e.newValue >= 2, cb) deferred on an object root that has listeners
C35_Witness ==
    /\ last.op.name = "whenFn" /\ last.deferred
    /\ IsObject(last.pre.value)
    /\ last.pre.callbacks # <<>>
    /\ IsRegistered(callbacks, last.op.cb)
    /\ log # <<>>

\* where c stands in the registration order before the call
PlaceOf(c) == CHOOSE k \in 1..Len(last.pre.callbacks) : last.pre.callbacks[k] = c
\* w.value = x on a primitive root, callback 2 - the one that writes from its
\* callback - registered before callback 1, and nothing thrown
WriterFirst ==
    /\ last.op.name = "set" /\ ~IsObject(last.pre.value)
    /\ last.thrown = "none" /\ ~last.cut
    /\ IsRegistered(last.pre.callbacks, 1) /\ IsRegistered(last.pre.callbacks, 2)
    /\ PlaceOf(2) < PlaceOf(1)

\* C36: when the listener that writes from its callback is registered before
\* listener B, every event its writes produce is dispatched in full before B is
\* reached for the event being dispatched: B is tested or invoked for the later
\* event first, and a B without once flag and condition is invoked for every
\* event of the call.
C36_NestedDispatchFirst ==
    WriterFirst =>
        /\ \A i \in CallEntries(1) \cup PredEntries(1) :
               \A k \in Dispatched : log[k].eid > log[i].eid => k < i
        /\ (1 \notin last.pre.toRemove /\ ~last.pre.predicates[1].has) =>
               \A id \in 1..last.nev : CallsFor(1, id) # {}

\* the writer is invoked for E1 and writes, E2 goes to the writer and to B, and
\* then B is invoked for E1
C36_Witness ==
    /\ WriterFirst /\ last.nev = 2
    /\ [i \in 1..Len(log) |-> <<log[i].kind, log[i].cb, log[i].eid>>]
           = << <<"call", 2, 1>>, <<"call", 2, 2>>, <<"call", 1, 2>>, <<"call", 1, 1>> >>

\* callback 1 registers itself again from its own callback
ReRegisters == script[1] \in {"again", "whenAgain"}

\* C37: a once listener that registers itself again from inside its callback -
\* by addChangeListener(cb) or by a when(() => false, cb) that defers - is
\* invoked once by the dispatch and is removed when that callback returns: after
\* the call it is no listener, has no once flag and no condition; and a callback
\* that is no listener before a call is not invoked by it.
C37_OneShotReRegistering ==
    ReRegisters =>
        /\ (/\ last.op.name = "set" /\ last.nev >= 1
            /\ IsRegistered(last.pre.callbacks, 1) /\ 1 \in last.pre.toRemove) =>
               /\ Cardinality(CallEntries(1)) = 1
               /\ ~IsRegistered(callbacks, 1)
               /\ 1 \notin toRemove
               /\ ~predicates[1].has
        /\ ~IsRegistered(last.pre.callbacks, 1) => CallEntries(1) = {}

\* the once listener was invoked and removed by an earlier assignment, and the
\* assignment after it dispatched to the other listener only
C37_Witness ==
    /\ ReRegisters
    /\ last.op.name = "set" /\ last.nev = 1
    /\ reg[1].how = "add" /\ reg[1].once /\ reg[1].calls = 1
    /\ last.pre.callbacks = <<2>>
    /\ CallEntries(2) # {} /\ CallEntries(1) = {}
====
